---- MODULE Spec2Model ----
(***************************************************************************)
(* Model of the statistical reference scripts of MetaReview:               *)
(*   scripts/validate-comprehensive.py  effect sizes and meta_analysis     *)
(*   scripts/validate-hr.py             log_hazard_ratio, meta_analysis_hr *)
(*   scripts/validate-gold-standard.py  the straight-line computation      *)
(*                                                                         *)
(* Numbers.  A float is modelled by an exact extended rational <<n, d>>:   *)
(* d > 0 and gcd(n, d) = 1 for a finite value, <<1, 0>> for +inf,          *)
(* <<-1, 0>> for -inf and <<0, 0>> for NaN.  numpy arithmetic never        *)
(* raises (a division by zero gives inf or nan); a division of two Python  *)
(* numbers raises ZeroDivisionError, which the functions below model by    *)
(* an explicit guard and a result with status "ZeroDivisionError".         *)
(* Rounding of the float64 operations is not modelled.                     *)
(* A square root is kept in the form c * sqrt(r), a logarithm in the form  *)
(* ln(x); an input exp(q) is given by its exponent q.                      *)
(***************************************************************************)
EXTENDS Integers, Sequences, FiniteSets, TLC

VARIABLES study, corrected, applied, es, studies, model, ma, hr,
          given, seen, ncalls, egger,
          engine, gold, scenario_idx, total_all, passed_all, all_failures, exit_code

vars == <<study, corrected, applied, es, studies, model, ma, hr,
          given, seen, ncalls, egger,
          engine, gold, scenario_idx, total_all, passed_all, all_failures, exit_code>>

esVars == <<study, corrected, applied, es>>
poolVars == <<studies, model, ma, hr>>
\* repeated calls: the caller's copy of the study list, the results returned
\* so far for each function and selector, the number of calls
pureVars == <<given, seen, ncalls>>
eggerVars == <<egger>>
\* compare-comprehensive.py: the two documents and the locals of main
cmpVars == <<engine, gold, scenario_idx, total_all, passed_all, all_failures, exit_code>>
restVars == <<pureVars, eggerVars, cmpVars>>

PureIdle ==
    /\ given = <<>>
    /\ seen = <<>>
    /\ ncalls = 0

EggerIdle == egger = [status |-> "none"]

CmpIdle ==
    /\ engine = <<>>
    /\ gold = <<>>
    /\ scenario_idx = 0
    /\ total_all = 0
    /\ passed_all = 0
    /\ all_failures = <<>>
    /\ exit_code = -1

\* nothing but the effect sizes and the analysis of one study set is running
RestIdle == PureIdle /\ EggerIdle /\ CmpIdle

(***************************************************************************)
(* Extended rational arithmetic (IEEE semantics for inf and nan).          *)
(* Bind(v, F) is F(v) with v evaluated once: every operation binds its     *)
(* operands before it uses them.                                           *)
(***************************************************************************)
Bind(v, F(_)) == CHOOSE r \in {F(x) : x \in {v}} : TRUE

Abs(n) == IF n < 0 THEN -n ELSE n

Sign(n) == IF n > 0 THEN 1 ELSE IF n < 0 THEN -1 ELSE 0

RECURSIVE Gcd(_, _)
Gcd(a, b) == IF b = 0 THEN a ELSE Bind(<<b, a % b>>, LAMBDA p : Gcd(p[1], p[2]))

NormP(p) ==
    IF p[2] = 0 THEN <<Sign(p[1]), 0>>
    ELSE Bind(Gcd(Abs(p[1]), Abs(p[2])),
              LAMBDA g : IF p[2] < 0 THEN <<-(p[1] \div g), -(p[2] \div g)>>
                         ELSE <<p[1] \div g, p[2] \div g>>)

\* the fraction n / d in lowest terms; n / 0 is an infinity or NaN
Norm(n, d) == Bind(<<n, d>>, NormP)

R(n) == <<n, 1>>
Zero == <<0, 1>>
One == <<1, 1>>
Half == <<1, 2>>
PInf == <<1, 0>>
NInf == <<-1, 0>>
NaN == <<0, 0>>

IsNaN(x) == x = NaN
IsFinite(x) == Bind(x, LAMBDA v : v[2] # 0)

AddP(p) ==
    LET x == p[1]
        y == p[2]
    IN  IF x[2] = 0 /\ y[2] = 0 THEN (IF x = y THEN x ELSE NaN)
        ELSE IF x[2] = 0 THEN x
        ELSE IF y[2] = 0 THEN y
        ELSE Norm(x[1] * y[2] + y[1] * x[2], x[2] * y[2])

RAdd(x, y) == Bind(<<x, y>>, AddP)
RNeg(x) == Bind(x, LAMBDA v : <<-v[1], v[2]>>)
RSub(x, y) == RAdd(x, RNeg(y))
RMul(x, y) == Bind(<<x, y>>, LAMBDA p : Norm(p[1][1] * p[2][1], p[1][2] * p[2][2]))
\* 1/x with numpy semantics: 1/0 = +inf, 1/inf = 0, 1/nan = nan
RInv(x) == Bind(x, LAMBDA v : IF v = NaN THEN NaN ELSE Norm(v[2], v[1]))
RDiv(x, y) == RMul(x, RInv(y))
RSq(x) == Bind(x, LAMBDA v : RMul(v, v))

LtP(p) ==
    LET x == p[1]
        y == p[2]
    IN  /\ x # NaN /\ y # NaN /\ x # y
        /\ IF x = NInf \/ y = PInf THEN TRUE
           ELSE IF x = PInf \/ y = NInf THEN FALSE
           ELSE x[1] * y[2] < y[1] * x[2]

\* x < y as a float comparison: false whenever a NaN is involved
RLt(x, y) == Bind(<<x, y>>, LtP)
RGt(x, y) == RLt(y, x)
RLe(x, y) == Bind(<<x, y>>, LAMBDA p : p[1] # NaN /\ p[2] # NaN /\ (p[1] = p[2] \/ LtP(p)))
RGe(x, y) == RLe(y, x)

\* Python's max(a, b): b only when b > a, so max(0, nan) is 0
PyMax(a, b) == Bind(<<a, b>>, LAMBDA p : IF LtP(p) THEN p[2] ELSE p[1])

\* np.sqrt(x) kept as c * sqrt(r); nan for a negative or nan argument
Sqrt(x) ==
    Bind(x, LAMBDA v : IF v = NaN \/ LtP(<<v, Zero>>)
                       THEN [c |-> NaN, r |-> One]
                       ELSE [c |-> One, r |-> v])
\* the square of c * sqrt(r)
SurdSq(s) == Bind(s, LAMBDA v : RMul(RSq(v.c), v.r))
\* x * (c * sqrt(r)) and x / (c * sqrt(r)) for a rational x (numpy semantics)
SurdScale(s, x) == Bind(s, LAMBDA v : [c |-> RMul(v.c, x), r |-> v.r])
DivBySurd(x, s) ==
    Bind(s, LAMBDA v : IF v.r = Zero \/ v.c = Zero
                       THEN [c |-> RDiv(x, Zero), r |-> One]
                       ELSE [c |-> RDiv(x, RMul(v.c, v.r)), r |-> v.r])
SurdIsZero(s) == Bind(s, LAMBDA v : v.c = Zero \/ (v.c[2] # 0 /\ v.r = Zero))
SurdIsFinite(s) == Bind(s, LAMBDA v : v.c[2] # 0 /\ v.r[2] # 0)

\* np.log(x): ln of a positive value, -inf at 0, nan below 0
Ln(x) ==
    Bind(x, LAMBDA v :
        IF v = NaN \/ LtP(<<v, Zero>>) THEN [kind |-> "nan", arg |-> One]
        ELSE IF v = Zero THEN [kind |-> "-inf", arg |-> One]
        ELSE IF v = PInf THEN [kind |-> "inf", arg |-> One]
        ELSE [kind |-> "ln", arg |-> v])

(***************************************************************************)
(* Effect sizes: validate-comprehensive.py, lines 25-64.                   *)
(***************************************************************************)
\* A variant that returns the counts as they are
correct_zero_cells_never(events1, total1, events2, total2) ==
    <<events1, total1, events2, total2>>

\* A variant that corrects only the arm that has the zero cell
correct_zero_cells_one_arm(events1, total1, events2, total2) ==
    LET z1 == events1 = Zero \/ events1 = total1
        z2 == events2 = Zero \/ events2 = total2
    IN  <<IF z1 THEN RAdd(events1, Half) ELSE events1,
          IF z1 THEN RAdd(total1, One) ELSE total1,
          IF z2 THEN RAdd(events2, Half) ELSE events2,
          IF z2 THEN RAdd(total2, One) ELSE total2>>

\* A variant that adds 0.5 to the totals as well as to the event counts
correct_zero_cells_half_total(events1, total1, events2, total2) ==
    LET has_zero == events1 = Zero \/ events2 = Zero
                    \/ events1 = total1 \/ events2 = total2
    IN  IF ~has_zero THEN <<events1, total1, events2, total2>>
        ELSE <<RAdd(events1, Half), RAdd(total1, Half),
               RAdd(events2, Half), RAdd(total2, Half)>>

correct_zero_cells(events1, total1, events2, total2) ==
    LET has_zero == events1 = Zero \/ events2 = Zero
                    \/ events1 = total1 \/ events2 = total2
    IN  IF ~has_zero THEN <<events1, total1, events2, total2>>
        ELSE <<RAdd(events1, Half), RAdd(total1, One),
               RAdd(events2, Half), RAdd(total2, One)>>

Raised == [status |-> "ZeroDivisionError"]
NoResult == [status |-> "none"]

log_odds_ratio(events1, total1, events2, total2) ==
    LET cz == correct_zero_cells(events1, total1, events2, total2)
        a == cz[1]
        b == RSub(cz[2], cz[1])
        c == cz[3]
        d == RSub(cz[4], cz[3])
    IN  IF RMul(b, c) = Zero \/ a = Zero \/ b = Zero \/ c = Zero \/ d = Zero
        THEN Raised
        ELSE [status |-> "ok", measure |-> "OR",
              yi |-> Ln(RDiv(RMul(a, d), RMul(b, c))),
              sei |-> Sqrt(RAdd(RAdd(RAdd(RInv(a), RInv(b)), RInv(c)), RInv(d)))]

log_risk_ratio(events1, total1, events2, total2) ==
    LET cz == correct_zero_cells(events1, total1, events2, total2)
        e1 == cz[1]
        t1 == cz[2]
        e2 == cz[3]
        t2 == cz[4]
        p1 == RDiv(e1, t1)
        p2 == RDiv(e2, t2)
    IN  IF t1 = Zero \/ t2 = Zero \/ p2 = Zero \/ e1 = Zero \/ e2 = Zero
        THEN Raised
        ELSE [status |-> "ok", measure |-> "RR",
              yi |-> Ln(RDiv(p1, p2)),
              sei |-> Sqrt(RAdd(RDiv(RSub(One, p1), e1), RDiv(RSub(One, p2), e2)))]

mean_difference(mean1, sd1, n1, mean2, sd2, n2) ==
    IF n1 = Zero \/ n2 = Zero THEN Raised
    ELSE [status |-> "ok", measure |-> "MD",
          yi |-> RSub(mean1, mean2),
          sei |-> Sqrt(RAdd(RDiv(RSq(sd1), n1), RDiv(RSq(sd2), n2)))]

hedges_g(mean1, sd1, n1, mean2, sd2, n2) ==
    LET df == RSub(RAdd(n1, n2), R(2))
        var == RDiv(RAdd(RMul(RSub(n1, One), RSq(sd1)),
                         RMul(RSub(n2, One), RSq(sd2))), df)
        sp == Sqrt(var)
        \* 4 * df - 1 is odd, never zero
        J == RSub(One, RDiv(R(3), RSub(RMul(R(4), df), One)))
        \* float / np.float64: inf or nan when sp = 0, no exception
        cohen_d == DivBySurd(RSub(mean1, mean2), sp)
        yi == SurdScale(cohen_d, J)
        N == RAdd(n1, n2)
    IN  IF df = Zero \/ RMul(n1, n2) = Zero THEN Raised
        ELSE [status |-> "ok", measure |-> "SMD",
              yi |-> yi,
              sei |-> SurdScale(Sqrt(RAdd(RDiv(N, RMul(n1, n2)),
                                          RDiv(SurdSq(yi), RMul(R(2), N)))), J)]


(***************************************************************************)
(* Inputs of the effect-size functions.                                    *)
(***************************************************************************)
MaxTotal == 3
MaxMean == 1
MaxSd == 1
MaxN == 2
MaxApply == 2

Binary(e1, t1, e2, t2) ==
    [kind |-> "binary", events1 |-> e1, total1 |-> t1, events2 |-> e2, total2 |-> t2]

\* validate-comprehensive.py, zero_cell_studies
zero_cell_studies ==
    <<Binary(0, 20, 5, 22), Binary(3, 30, 8, 28),
      Binary(1, 15, 6, 18), Binary(10, 50, 0, 45)>>

BinaryStudies ==
    {Binary(e1, t1, e2, t2) : e1 \in 0..MaxTotal, t1 \in 0..MaxTotal,
                              e2 \in 0..MaxTotal, t2 \in 0..MaxTotal}

ValidBinary(s) == s.events1 <= s.total1 /\ s.events2 <= s.total2

ContinuousStudies ==
    [kind : {"continuous"},
     mean1 : 0..MaxMean, sd1 : 0..MaxSd, n1 : 0..MaxN,
     mean2 : 0..MaxMean, sd2 : 0..MaxSd, n2 : 0..MaxN]

NotRun == [fn |-> "none", out |-> NoResult]

PoolIdle ==
    /\ studies = <<>>
    /\ model = "random"
    /\ ma = NoResult
    /\ hr = NoResult

InitES ==
    /\ study \in {s \in BinaryStudies : ValidBinary(s)}
                 \cup {zero_cell_studies[i] : i \in 1..Len(zero_cell_studies)}
                 \cup ContinuousStudies
    /\ corrected = <<>>
    /\ applied = 0
    /\ es = NotRun
    /\ PoolIdle
    /\ RestIdle

\* the first call of correct_zero_cells on the study's counts
CorrectZeroCells ==
    /\ study.kind = "binary"
    /\ applied = 0
    /\ corrected' = correct_zero_cells(R(study.events1), R(study.total1),
                                       R(study.events2), R(study.total2))
    /\ applied' = 1
    /\ UNCHANGED <<study, es, poolVars, restVars>>

\* correct_zero_cells called again on its own output
ReapplyCorrection ==
    /\ applied >= 1
    /\ applied < MaxApply
    /\ corrected' = correct_zero_cells(corrected[1], corrected[2],
                                       corrected[3], corrected[4])
    /\ applied' = applied + 1
    /\ UNCHANGED <<study, es, poolVars, restVars>>

LogOddsRatio ==
    /\ study.kind = "binary"
    /\ es = NotRun
    /\ es' = [fn |-> "log_odds_ratio",
              out |-> log_odds_ratio(R(study.events1), R(study.total1),
                                     R(study.events2), R(study.total2))]
    /\ UNCHANGED <<study, corrected, applied, poolVars, restVars>>

LogRiskRatio ==
    /\ study.kind = "binary"
    /\ es = NotRun
    /\ es' = [fn |-> "log_risk_ratio",
              out |-> log_risk_ratio(R(study.events1), R(study.total1),
                                     R(study.events2), R(study.total2))]
    /\ UNCHANGED <<study, corrected, applied, poolVars, restVars>>

MeanDifference ==
    /\ study.kind = "continuous"
    /\ es = NotRun
    /\ es' = [fn |-> "mean_difference",
              out |-> mean_difference(R(study.mean1), R(study.sd1), R(study.n1),
                                      R(study.mean2), R(study.sd2), R(study.n2))]
    /\ UNCHANGED <<study, corrected, applied, poolVars, restVars>>

HedgesG ==
    /\ study.kind = "continuous"
    /\ es = NotRun
    /\ es' = [fn |-> "hedges_g",
              out |-> hedges_g(R(study.mean1), R(study.sd1), R(study.n1),
                               R(study.mean2), R(study.sd2), R(study.n2))]
    /\ UNCHANGED <<study, corrected, applied, poolVars, restVars>>

NextES ==
    \/ CorrectZeroCells
    \/ ReapplyCorrection
    \/ LogOddsRatio
    \/ LogRiskRatio
    \/ MeanDifference
    \/ HedgesG

SpecES == InitES /\ [][NextES]_vars

(***************************************************************************)
(* Hazard ratios: validate-hr.py, lines 41-50.  An input exp(q) is the     *)
(* record [sgn |-> 1, exp |-> q]; sgn 0 is the input 0, sgn -1 a negative  *)
(* input.                                                                  *)
(***************************************************************************)
PosExp(q) == [sgn |-> 1, exp |-> q]

\* np.log at an input
LnIn(x) == IF x.sgn = 1 THEN x.exp ELSE IF x.sgn = 0 THEN NInf ELSE NaN

\* np.exp(x)
ExpOf(x) ==
    IF IsNaN(x) THEN [sgn |-> -1, exp |-> NaN]
    ELSE IF x = NInf THEN [sgn |-> 0, exp |-> Zero]
    ELSE [sgn |-> 1, exp |-> x]

\* the literal 1.96
Z196 == <<49, 25>>

log_hazard_ratio(hrv, ci_lower, ci_upper) ==
    [yi |-> LnIn(hrv),
     sei |-> RDiv(RSub(LnIn(ci_upper), LnIn(ci_lower)), RMul(R(2), Z196))]

(***************************************************************************)
(* Pooling: validate-comprehensive.py meta_analysis (lines 67-130) and     *)
(* validate-hr.py meta_analysis_hr (lines 53-173).  Each assignment of the *)
(* code is a Bind; an array is the tuple Tab(F, k) = <<F(1), ..., F(k)>>.  *)
(* np.sum adds the elements of a short array from the first to the last.   *)
(***************************************************************************)
RECURSIVE Tab(_, _)
Tab(F(_), n) == IF n = 0 THEN <<>> ELSE Append(Tab(F, n - 1), F(n))

RECURSIVE SumTo(_, _)
SumTo(xs, n) == IF n = 0 THEN Zero ELSE RAdd(SumTo(xs, n - 1), xs[n])

\* A variant that leaves the last element out
SumButLast(xs) == Bind(xs, LAMBDA v : SumTo(v, Len(v) - 1))

Sum(xs) == Bind(xs, LAMBDA v : SumTo(v, Len(v)))

\* the constant p-value 1 and the upper tail 1 - chi2.cdf(Q, df), kept symbolic
ConstP(x) == [dist |-> "const", x |-> x, df |-> 0]
Chi2Upper(Q, df) == [dist |-> "chi2", x |-> Q, df |-> df]
\* 2 * (1 - norm.cdf(abs(z))), kept symbolic
NormTwoSided(z) == [dist |-> "norm", z |-> z]

\* A variant that reports the share of the other studies, 100 - w / sum_w * 100
WeightPctComplement(w, sum_w) ==
    Tab(LAMBDA i : RSub(R(100), RMul(RDiv(w[i], sum_w), R(100))), Len(w))

\* w / sum_w * 100
WeightPct(w, sum_w) == Tab(LAMBDA i : RMul(RDiv(w[i], sum_w), R(100)), Len(w))

\* A variant that reports H2 = Q / 1 = 0 for a single study
DegenerateHetH2Zero ==
    [Q |-> Zero, df |-> 0, pValue |-> ConstP(One), I2 |-> Zero,
     tau2 |-> Zero, tau |-> Sqrt(Zero), H2 |-> Zero]

\* meta_analysis, line 82, and meta_analysis_hr, lines 96-97
DegenerateHet ==
    [Q |-> Zero, df |-> 0, pValue |-> ConstP(One), I2 |-> Zero,
     tau2 |-> Zero, tau |-> Sqrt(Zero), H2 |-> One]

\* meta_analysis, lines 74-78: w_fe, sum_w_fe, summary_fe, se_fe
MA_Fixed(yi, vi) ==
    Bind(Tab(LAMBDA i : RDiv(One, vi[i]), Len(vi)), LAMBDA w_fe :
    Bind(Sum(w_fe), LAMBDA sum_w_fe :
        [w |-> w_fe, sum_w |-> sum_w_fe,
         summary |-> RDiv(Sum(Tab(LAMBDA i : RMul(w_fe[i], yi[i]), Len(yi))), sum_w_fe),
         se |-> Sqrt(RDiv(One, sum_w_fe))]))

\* A variant without the truncation of tau2 at zero
MA_TauUntruncated(Q, df, C) == RDiv(RSub(Q, R(df)), C)

\* meta_analysis, line 94
MA_Tau2(Q, df, C) == PyMax(Zero, RDiv(RSub(Q, R(df)), C))

\* A variant that takes the excess over Q relative to df
MA_I2OverDf(Q, df) ==
    IF RGt(Q, Zero) THEN PyMax(Zero, RMul(RDiv(RSub(Q, R(df)), R(df)), R(100))) ELSE Zero

\* A variant that takes the excess of Q over k = df + 1
MA_I2ExcessOverK(Q, df) ==
    IF RGt(Q, Zero) THEN PyMax(Zero, RMul(RDiv(RSub(Q, R(df + 1)), Q), R(100))) ELSE Zero

\* meta_analysis, line 96
MA_I2(Q, df) ==
    IF RGt(Q, Zero) THEN PyMax(Zero, RMul(RDiv(RSub(Q, R(df)), Q), R(100))) ELSE Zero

\* A variant whose C is sum(w) - sum(w^2), without the division by sum(w)
MA_HetUndividedC(yi, fe, df) ==
    Bind(Sum(Tab(LAMBDA i : RMul(fe.w[i], RSq(RSub(yi[i], fe.summary))), Len(yi))),
         LAMBDA Q :
    Bind(RSub(fe.sum_w, Sum(Tab(LAMBDA i : RSq(fe.w[i]), Len(yi)))),
         LAMBDA C :
    Bind(IF C = Zero THEN Zero ELSE MA_Tau2(Q, df, C), LAMBDA tau2 :
        [C |-> C,
         het |-> [Q |-> Q, df |-> df, pValue |-> Chi2Upper(Q, df),
                  I2 |-> MA_I2(Q, df), tau2 |-> tau2, tau |-> Sqrt(tau2),
                  H2 |-> IF df > 0 THEN RDiv(Q, R(df)) ELSE One]])))

\* meta_analysis, lines 91-102: Q, C and the heterogeneity dict
MA_Het(yi, fe, df) ==
    Bind(Sum(Tab(LAMBDA i : RMul(fe.w[i], RSq(RSub(yi[i], fe.summary))), Len(yi))),
         LAMBDA Q :
    Bind(RSub(fe.sum_w, RDiv(Sum(Tab(LAMBDA i : RSq(fe.w[i]), Len(yi))), fe.sum_w)),
         LAMBDA C :
    Bind(IF C = Zero THEN Zero ELSE MA_Tau2(Q, df, C), LAMBDA tau2 :
        [C |-> C,
         het |-> [Q |-> Q, df |-> df, pValue |-> Chi2Upper(Q, df),
                  I2 |-> MA_I2(Q, df), tau2 |-> tau2, tau |-> Sqrt(tau2),
                  H2 |-> IF df > 0 THEN RDiv(Q, R(df)) ELSE One]])))

\* A variant that gives every study the same random-effects weight
MA_RandomUnweighted(yi, vi, tau2) ==
    Bind(Tab(LAMBDA i : One, Len(vi)), LAMBDA w_re :
    Bind(Sum(w_re), LAMBDA sum_w_re :
        [w |-> w_re, sum_w |-> sum_w_re,
         summary |-> RDiv(Sum(Tab(LAMBDA i : RMul(w_re[i], yi[i]), Len(yi))), sum_w_re),
         se |-> Sqrt(RDiv(One, sum_w_re))]))

\* A variant that leaves tau2 out of the random-effects weights
MA_RandomWithoutTau2(yi, vi, tau2) ==
    Bind(Tab(LAMBDA i : RDiv(One, vi[i]), Len(vi)), LAMBDA w_re :
    Bind(Sum(w_re), LAMBDA sum_w_re :
        [w |-> w_re, sum_w |-> sum_w_re,
         summary |-> RDiv(Sum(Tab(LAMBDA i : RMul(w_re[i], yi[i]), Len(yi))), sum_w_re),
         se |-> Sqrt(RDiv(One, sum_w_re))]))

\* meta_analysis, lines 104-108: w_re, sum_w_re, summary_re, se_re
MA_Random(yi, vi, tau2) ==
    Bind(Tab(LAMBDA i : RDiv(One, RAdd(vi[i], tau2)), Len(vi)), LAMBDA w_re :
    Bind(Sum(w_re), LAMBDA sum_w_re :
        [w |-> w_re, sum_w |-> sum_w_re,
         summary |-> RDiv(Sum(Tab(LAMBDA i : RMul(w_re[i], yi[i]), Len(yi))), sum_w_re),
         se |-> Sqrt(RDiv(One, sum_w_re))]))

\* A variant that returns the random-effects estimate whatever the selector
MA_ReturnRandomOnly(fe, h, re, mdl) ==
    IF h.C = Zero \/ SurdIsZero(re.se) THEN Raised
    ELSE Bind(DivBySurd(re.summary, re.se), LAMBDA z :
        [status |-> "ok", summary |-> re.summary, se |-> re.se, z |-> z,
         pValue |-> NormTwoSided(z), heterogeneity |-> h.het,
         weights_fe |-> WeightPct(fe.w, fe.sum_w),
         weights_re |-> WeightPct(re.w, re.sum_w),
         fixed_summary |-> fe.summary, fixed_se |-> fe.se])

\* meta_analysis, lines 110-130; (Q - df) / C and summary / se divide Python
\* floats and raise ZeroDivisionError on a zero divisor
MA_Return(fe, h, re, mdl) ==
    Bind(IF mdl = "fixed" THEN fe ELSE re, LAMBDA sel :
        IF h.C = Zero \/ SurdIsZero(sel.se) THEN Raised
        ELSE Bind(DivBySurd(sel.summary, sel.se), LAMBDA z :
            [status |-> "ok", summary |-> sel.summary, se |-> sel.se, z |-> z,
             pValue |-> NormTwoSided(z), heterogeneity |-> h.het,
             weights_fe |-> WeightPct(fe.w, fe.sum_w),
             weights_re |-> WeightPct(re.w, re.sum_w),
             fixed_summary |-> fe.summary, fixed_se |-> fe.se]))

meta_analysis(yi_arr, vi_arr, mdl) ==
    Bind([yi |-> yi_arr, vi |-> vi_arr], LAMBDA a :
    Bind(MA_Fixed(a.yi, a.vi), LAMBDA fe :
        IF Len(a.yi) - 1 <= 0
        THEN [status |-> "ok", summary |-> fe.summary, se |-> fe.se,
              heterogeneity |-> DegenerateHet,
              weights_fe |-> WeightPct(fe.w, fe.sum_w),
              weights_re |-> WeightPct(fe.w, fe.sum_w)]
        ELSE Bind(MA_Het(a.yi, fe, Len(a.yi) - 1), LAMBDA h :
             Bind(MA_Random(a.yi, a.vi, h.het.tau2), LAMBDA re :
                 MA_Return(fe, h, re, mdl)))))

\* validate-hr.py, lines 68-81: the per-study loop of meta_analysis_hr
HR_PerStudy(study_rec) ==
    Bind(log_hazard_ratio(study_rec.hr, study_rec.ciLower, study_rec.ciUpper), LAMBDA e :
        [yi |-> e.yi, sei |-> e.sei, vi |-> RSq(e.sei),
         effect |-> ExpOf(e.yi),
         ciLower |-> ExpOf(RSub(e.yi, RMul(Z196, e.sei))),
         ciUpper |-> ExpOf(RAdd(e.yi, RMul(Z196, e.sei)))])

PerStudy(sts) == Bind(sts, LAMBDA v : Tab(LAMBDA i : HR_PerStudy(v[i]), Len(v)))

\* lines 88-92
HR_Fixed(yi, vi) ==
    Bind(Tab(LAMBDA i : RDiv(One, vi[i]), Len(vi)), LAMBDA w_fe :
    Bind(Sum(w_fe), LAMBDA sum_w_fe :
        [w |-> w_fe, sum_w |-> sum_w_fe,
         summary |-> RDiv(Sum(Tab(LAMBDA i : RMul(w_fe[i], yi[i]), Len(yi))), sum_w_fe),
         se |-> Sqrt(RDiv(One, sum_w_fe))]))

\* lines 102-119; sum_w2 / sum_w_fe and (Q - df) / C divide Python floats
HR_Het(yi, fe, df) ==
    Bind(Sum(Tab(LAMBDA i : RMul(fe.w[i], RSq(RSub(yi[i], fe.summary))), Len(yi))),
         LAMBDA Q :
    Bind(Sum(Tab(LAMBDA i : RSq(fe.w[i]), Len(yi))), LAMBDA sum_w2 :
    Bind(RSub(fe.sum_w, RDiv(sum_w2, fe.sum_w)), LAMBDA C :
    Bind(IF C = Zero THEN Zero ELSE PyMax(Zero, RDiv(RSub(Q, R(df)), C)), LAMBDA tau2 :
        [raised |-> fe.sum_w = Zero \/ C = Zero,
         het |-> [Q |-> Q, df |-> df, pValue |-> Chi2Upper(Q, df),
                  I2 |-> IF RGt(Q, Zero)
                         THEN PyMax(Zero, RMul(RDiv(RSub(Q, R(df)), Q), R(100)))
                         ELSE Zero,
                  tau2 |-> tau2, tau |-> Sqrt(tau2),
                  H2 |-> RDiv(Q, R(df))]]))))

\* lines 121-127
HR_Random(yi, vi, tau2) ==
    Bind(Tab(LAMBDA i : RDiv(One, RAdd(vi[i], tau2)), Len(vi)), LAMBDA w_re :
    Bind(Sum(w_re), LAMBDA sum_w_re :
        [w |-> w_re, sum_w |-> sum_w_re,
         summary |-> RDiv(Sum(Tab(LAMBDA i : RMul(w_re[i], yi[i]), Len(yi))), sum_w_re),
         se |-> Sqrt(RDiv(One, sum_w_re))]))

\* lines 145-166: exp(summary), and exp(summary -+ 1.96 * se) kept as
\* centre and half width
Pooled(summary, se, z) ==
    [summary |-> summary, se |-> se,
     effect |-> ExpOf(summary),
     ci |-> [centre |-> summary, half |-> SurdScale(se, Z196)],
     z |-> z, pValue |-> NormTwoSided(z)]

\* lines 136-173, with the pooled estimate sel and the weights weights_re_pct
HR_Return(per_study, fe, sel, weights_re_pct, het) ==
    IF SurdIsZero(sel.se) \/ SurdIsZero(fe.se) THEN Raised
    ELSE [status |-> "ok",
          studies |-> Tab(LAMBDA i :
                          [yi |-> per_study[i].yi, sei |-> per_study[i].sei,
                           vi |-> per_study[i].vi, effect |-> per_study[i].effect,
                           ciLower |-> per_study[i].ciLower,
                           ciUpper |-> per_study[i].ciUpper,
                           weight |-> weights_re_pct[i]], Len(per_study)),
          pooled |-> Pooled(sel.summary, sel.se, DivBySurd(sel.summary, sel.se)),
          fixed |-> Pooled(fe.summary, fe.se, DivBySurd(fe.summary, fe.se)),
          heterogeneity |-> het]

meta_analysis_hr(sts, mdl) ==
    Bind(PerStudy(sts), LAMBDA per_study :
    Bind([yi |-> Tab(LAMBDA i : per_study[i].yi, Len(per_study)),
          vi |-> Tab(LAMBDA i : per_study[i].vi, Len(per_study))], LAMBDA a :
    Bind(HR_Fixed(a.yi, a.vi), LAMBDA fe :
        IF Len(a.yi) - 1 <= 0
        THEN Bind(WeightPct(fe.w, fe.sum_w), LAMBDA weights_re_pct :
                 HR_Return(per_study, fe, fe, weights_re_pct, DegenerateHet))
        ELSE Bind(HR_Het(a.yi, fe, Len(a.yi) - 1), LAMBDA h :
                 IF h.raised THEN Raised
                 ELSE Bind(HR_Random(a.yi, a.vi, h.het.tau2), LAMBDA re :
                      Bind(WeightPct(re.w, re.sum_w), LAMBDA weights_re_pct :
                          HR_Return(per_study, fe, IF mdl = "fixed" THEN fe ELSE re,
                                    weights_re_pct, h.het)))))))

yi_arr(sts) == Bind(PerStudy(sts), LAMBDA ps : Tab(LAMBDA i : ps[i].yi, Len(ps)))
vi_arr(sts) == Bind(PerStudy(sts), LAMBDA ps : Tab(LAMBDA i : ps[i].vi, Len(ps)))

(***************************************************************************)
(* validate-gold-standard.py, lines 63-98: the straight-line computation   *)
(* on the arrays yi_arr, vi_arr.  Q, C and the quotients are numpy floats: *)
(* no division raises.                                                     *)
(***************************************************************************)
\* lines 64-67
GS_Fixed(yi, vi) ==
    Bind(Tab(LAMBDA i : RDiv(One, vi[i]), Len(vi)), LAMBDA w_fe :
    Bind(Sum(w_fe), LAMBDA sum_w_fe :
        [w |-> w_fe, sum_w |-> sum_w_fe,
         summary |-> RDiv(Sum(Tab(LAMBDA i : RMul(w_fe[i], yi[i]), Len(yi))), sum_w_fe),
         se |-> Sqrt(RDiv(One, sum_w_fe))]))

\* lines 70-84
GS_Het(yi, fe, df) ==
    Bind(Sum(Tab(LAMBDA i : RMul(fe.w[i], RSq(RSub(yi[i], fe.summary))), Len(yi))),
         LAMBDA Q :
    Bind(RSub(fe.sum_w, RDiv(Sum(Tab(LAMBDA i : RSq(fe.w[i]), Len(yi))), fe.sum_w)),
         LAMBDA C :
    Bind(PyMax(Zero, RDiv(RSub(Q, R(df)), C)), LAMBDA tau2 :
        [Q |-> Q, df |-> df, pValue |-> Chi2Upper(Q, df),
         I2 |-> IF RGt(Q, Zero)
                THEN PyMax(Zero, RMul(RDiv(RSub(Q, R(df)), Q), R(100)))
                ELSE Zero,
         tau2 |-> tau2, tau |-> Sqrt(tau2),
         H2 |-> IF df > 0 THEN RDiv(Q, R(df)) ELSE One])))

\* lines 87-90
GS_Random(yi, vi, tau2) ==
    Bind(Tab(LAMBDA i : RDiv(One, RAdd(vi[i], tau2)), Len(vi)), LAMBDA w_re :
    Bind(Sum(w_re), LAMBDA sum_w_re :
        [w |-> w_re, sum_w |-> sum_w_re,
         summary |-> RDiv(Sum(Tab(LAMBDA i : RMul(w_re[i], yi[i]), Len(yi))), sum_w_re),
         se |-> Sqrt(RDiv(One, sum_w_re))]))

\* lines 63-98 and the fields of the result dict they fill (lines 138-169)
gold_standard(yi_list, vi_list) ==
    Bind([yi |-> yi_list, vi |-> vi_list], LAMBDA a :
    Bind(GS_Fixed(a.yi, a.vi), LAMBDA fe :
    Bind(GS_Het(a.yi, fe, Len(a.yi) - 1), LAMBDA het :
    Bind(GS_Random(a.yi, a.vi, het.tau2), LAMBDA re :
        [pooled |-> [summary |-> re.summary, se |-> re.se,
                     z |-> DivBySurd(re.summary, re.se)],
         fixed_effects |-> [summary |-> fe.summary, se |-> fe.se],
         heterogeneity |-> het,
         weights_fe_pct |-> WeightPct(fe.w, fe.sum_w),
         weights_re_pct |-> WeightPct(re.w, re.sum_w)]))))

(***************************************************************************)
(* The analysis of one study set.                                          *)
(***************************************************************************)
MaxK == 3

\* ln(hr) of the studies, and the half width of the 95% CI in units of 1.96
LogHRs == {-1, 1}
HalfWidths == {0, 1, 2}

\* hr = exp(a) with the CI exp(a - 1.96 h) .. exp(a + 1.96 h)
HRStudy(a, h) ==
    [hr |-> PosExp(R(a)),
     ciLower |-> PosExp(RSub(R(a), RMul(Z196, R(h)))),
     ciUpper |-> PosExp(RAdd(R(a), RMul(Z196, R(h))))]

StudyTypes == {HRStudy(a, h) : a \in LogHRs, h \in HalfWidths}

ESIdle ==
    /\ study = Binary(1, 2, 1, 2)
    /\ corrected = <<>>
    /\ applied = 0
    /\ es = NotRun

Init ==
    /\ studies \in UNION {[1..k -> StudyTypes] : k \in 1..MaxK}
    /\ model \in {"fixed", "random"}
    /\ ma = NoResult
    /\ hr = NoResult
    /\ ESIdle
    /\ RestIdle

\* the effect sizes of the study set handed to meta_analysis
RunMetaAnalysis ==
    /\ ma = NoResult
    /\ \E yi \in {yi_arr(studies)}, vi \in {vi_arr(studies)} :
           ma' = meta_analysis(yi, vi, model)
    /\ UNCHANGED <<studies, model, hr, esVars, restVars>>

RunMetaAnalysisHR ==
    /\ hr = NoResult
    /\ hr' = meta_analysis_hr(studies, model)
    /\ UNCHANGED <<studies, model, ma, esVars, restVars>>

Next ==
    \/ RunMetaAnalysis
    \/ RunMetaAnalysisHR

Spec == Init /\ [][Next]_vars

(***************************************************************************)
(* Study sets with invalid records: a reported hr that is 0 or negative.   *)
(***************************************************************************)
\* hr = 0 (sgn 0) or hr < 0 (sgn -1) with the CI exp(-1.96 h) .. exp(1.96 h)
InvalidHRStudy(sgn, h) ==
    [hr |-> [sgn |-> sgn, exp |-> Zero],
     ciLower |-> PosExp(RNeg(RMul(Z196, R(h)))),
     ciUpper |-> PosExp(RMul(Z196, R(h)))]

InvalidTypes == {InvalidHRStudy(sgn, 1) : sgn \in {0, -1}}

InitInvalid ==
    /\ studies \in UNION {[1..k -> StudyTypes \cup InvalidTypes] : k \in 1..MaxK}
    /\ model \in {"fixed", "random"}
    /\ ma = NoResult
    /\ hr = NoResult
    /\ ESIdle
    /\ RestIdle

SpecInvalid == InitInvalid /\ [][Next]_vars

(***************************************************************************)
(* Repeated calls of meta_analysis and meta_analysis_hr on one study list. *)
(* Neither function reads or writes a global, and neither assigns to its   *)
(* arguments: meta_analysis_hr builds the dicts of per_study anew (lines   *)
(* 73-81) and attaches the weights to those (lines 141-142).               *)
(***************************************************************************)
MaxPureK == 2
MaxCalls == 3

Selectors == {"fixed", "random"}
Functions == {"meta_analysis", "meta_analysis_hr"}

InitPure ==
    /\ studies \in UNION {[1..k -> StudyTypes] : k \in 1..MaxPureK}
    /\ given = studies
    /\ seen = [c \in Functions \X Selectors |-> {}]
    /\ ncalls = 0
    /\ model = "random"
    /\ ma = NoResult
    /\ hr = NoResult
    /\ ESIdle
    /\ EggerIdle
    /\ CmpIdle

\* ma = meta_analysis(yi, vi, model=m) on the effect sizes of the list
CallMetaAnalysis ==
    /\ ncalls < MaxCalls
    /\ \E m \in Selectors, yi \in {yi_arr(studies)}, vi \in {vi_arr(studies)} :
           \E r \in {meta_analysis(yi, vi, m)} :
               /\ ma' = r
               /\ model' = m
               /\ seen' = [seen EXCEPT ![<<"meta_analysis", m>>] = @ \cup {r}]
    /\ ncalls' = ncalls + 1
    /\ UNCHANGED <<studies, given, hr, esVars, eggerVars, cmpVars>>

\* A variant that reverses the caller's list in place
CallMetaAnalysisHRReversing ==
    /\ ncalls < MaxCalls
    /\ \E m \in Selectors :
           \E r \in {meta_analysis_hr(studies, m)} :
               /\ hr' = r
               /\ model' = m
               /\ seen' = [seen EXCEPT ![<<"meta_analysis_hr", m>>] = @ \cup {r}]
    /\ studies' = [i \in 1..Len(studies) |-> studies[Len(studies) + 1 - i]]
    /\ ncalls' = ncalls + 1
    /\ UNCHANGED <<given, ma, esVars, eggerVars, cmpVars>>

\* hr = meta_analysis_hr(studies, model=m)
CallMetaAnalysisHR ==
    /\ ncalls < MaxCalls
    /\ \E m \in Selectors :
           \E r \in {meta_analysis_hr(studies, m)} :
               /\ hr' = r
               /\ model' = m
               /\ seen' = [seen EXCEPT ![<<"meta_analysis_hr", m>>] = @ \cup {r}]
    /\ ncalls' = ncalls + 1
    /\ UNCHANGED <<studies, given, ma, esVars, eggerVars, cmpVars>>

NextPure ==
    \/ CallMetaAnalysis
    \/ CallMetaAnalysisHR

SpecPure == InitPure /\ [][NextPure]_vars

(***************************************************************************)
(* Egger's test: validate-gold-standard.py, lines 104-129, on the arrays   *)
(* yi_arr and sei_arr.  Every operand is a numpy float: no division raises.*)
(***************************************************************************)
\* np.mean
Mean(xs) == Bind(xs, LAMBDA v : RDiv(Sum(v), R(Len(v))))

\* 2 * (1 - stats.t.cdf(abs(t), df)), kept symbolic
TTwoSided(t, df) == [dist |-> "t", t |-> t, df |-> df]

\* A variant that regresses yi itself, not yi / sei, on 1 / sei
EG_SumsUnscaled(yi, sei) ==
    Bind(Tab(LAMBDA i : RDiv(One, sei[i]), Len(sei)), LAMBDA x_egger :
    Bind(Tab(LAMBDA i : yi[i], Len(sei)), LAMBDA y_egger :
    Bind(<<Mean(x_egger), Mean(y_egger)>>, LAMBDA mean :
        [x |-> x_egger, y |-> y_egger, n |-> Len(x_egger),
         mean_x |-> mean[1], mean_y |-> mean[2],
         Sxx |-> Sum(Tab(LAMBDA i : RSq(RSub(x_egger[i], mean[1])), Len(x_egger))),
         Sxy |-> Sum(Tab(LAMBDA i : RMul(RSub(x_egger[i], mean[1]),
                                         RSub(y_egger[i], mean[2])), Len(x_egger)))])))

\* lines 106-113: x, y, their means, Sxx and Sxy
EG_Sums(yi, sei) ==
    Bind(Tab(LAMBDA i : RDiv(One, sei[i]), Len(sei)), LAMBDA x_egger :
    Bind(Tab(LAMBDA i : RDiv(yi[i], sei[i]), Len(sei)), LAMBDA y_egger :
    Bind(<<Mean(x_egger), Mean(y_egger)>>, LAMBDA mean :
        [x |-> x_egger, y |-> y_egger, n |-> Len(x_egger),
         mean_x |-> mean[1], mean_y |-> mean[2],
         Sxx |-> Sum(Tab(LAMBDA i : RSq(RSub(x_egger[i], mean[1])), Len(x_egger))),
         Sxy |-> Sum(Tab(LAMBDA i : RMul(RSub(x_egger[i], mean[1]),
                                         RSub(y_egger[i], mean[2])), Len(x_egger)))])))

\* lines 115-120: slope, intercept and the residual sum of squares
EG_Line(s) ==
    Bind(RDiv(s.Sxy, s.Sxx), LAMBDA slope_egger :
    Bind(RSub(s.mean_y, RMul(slope_egger, s.mean_x)), LAMBDA intercept_egger :
        [slope |-> slope_egger, intercept |-> intercept_egger,
         sse |-> Sum(Tab(LAMBDA i :
                     RSq(RSub(s.y[i], RAdd(intercept_egger, RMul(slope_egger, s.x[i])))),
                     s.n))]))

\* lines 121-129 and the eggers_test dict (lines 156-162)
eggers_test(yi, sei) ==
    Bind(EG_Sums(yi, sei), LAMBDA s :
    Bind(EG_Line(s), LAMBDA l :
    Bind(RDiv(l.sse, R(s.n - 2)), LAMBDA mse :
    Bind(Sqrt(RMul(mse, RAdd(RDiv(One, R(s.n)), RDiv(RSq(s.mean_x), s.Sxx)))),
         LAMBDA se_intercept :
    Bind(DivBySurd(l.intercept, se_intercept), LAMBDA t_egger :
        [status |-> "ok", intercept |-> l.intercept, se |-> se_intercept,
         tValue |-> t_egger, pValue |-> TTwoSided(t_egger, s.n - 2), df |-> s.n - 2,
         slope |-> l.slope, sse |-> l.sse, mse |-> mse, Sxx |-> s.Sxx])))))

\* line 61
sei_arr(sts) == Bind(PerStudy(sts), LAMBDA ps : Tab(LAMBDA i : ps[i].sei, Len(ps)))

MaxEggerK == 3
\* effect sizes yi and standard errors sei of the studies
EggerEffects == {1, 2, 3}
EggerErrors == {1, 2, 3}

InitEgger ==
    /\ studies \in UNION {[1..k -> {HRStudy(a, h) : a \in EggerEffects, h \in EggerErrors}]
                          : k \in 1..MaxEggerK}
    /\ model = "random"
    /\ ma = NoResult
    /\ hr = NoResult
    /\ egger = [status |-> "none"]
    /\ ESIdle
    /\ PureIdle
    /\ CmpIdle

RunEggersTest ==
    /\ egger.status = "none"
    /\ \E yi \in {yi_arr(studies)}, sei \in {sei_arr(studies)} :
           egger' = eggers_test(yi, sei)
    /\ UNCHANGED <<esVars, poolVars, pureVars, cmpVars>>

NextEgger == RunEggersTest

SpecEgger == InitEgger /\ [][NextEgger]_vars

(***************************************************************************)
(* compare-comprehensive.py.  A JSON number is [num |-> n] with n in units *)
(* of 1e-7, JSON null is None; a JSON object is a function from its keys.  *)
(***************************************************************************)
Num(n) == [num |-> n]
None == [null |-> TRUE]
IsNum(v) == "num" \in DOMAIN v

\* the default tol = 1e-6, in units of 1e-7
Tol == 10

\* compare_values, lines 12-24: the returned flag.  rel_diff < tol is
\* diff / |expected| < 1e-6, that is diff < ceil(|expected| / 10^6), and
\* rel_diff is diff when expected = 0.
compare_values(actual, expected) ==
    IF expected = None /\ actual = None THEN TRUE
    ELSE IF expected = None \/ actual = None THEN FALSE
    ELSE LET diff == Abs(actual.num - expected.num)
         IN  \/ diff < Tol
             \/ expected.num # 0 /\ diff < (Abs(expected.num) + 999999) \div 1000000

\* d.get(key, default)
Get(d, key, default) == IF key \in DOMAIN d THEN d[key] ELSE default

StudyKeys == <<"yi", "sei", "vi", "effect", "ciLower", "ciUpper">>
HetKeys == <<"Q", "df", "pValue", "I2", "tau2", "tau", "H2">>

\* lines 34-38: the checks of the per-study loop, in the order of the loop;
\* zip stops at the shorter list
StudyChecks(es_list, gs_list) ==
    LET n == IF Len(es_list) < Len(gs_list) THEN Len(es_list) ELSE Len(gs_list)
        at(j) == [part |-> "study", i |-> (j - 1) \div Len(StudyKeys),
                  key |-> StudyKeys[((j - 1) % Len(StudyKeys)) + 1]]
        counted(c) == c.key \in DOMAIN gs_list[c.i + 1] /\ c.key \in DOMAIN es_list[c.i + 1]
    IN  Tab(LAMBDA j : [part |-> "study", i |-> at(j).i, key |-> at(j).key,
                        counted |-> counted(at(j)),
                        actual |-> Get(es_list[at(j).i + 1], at(j).key, None),
                        expected |-> Get(gs_list[at(j).i + 1], at(j).key, None)],
            n * Len(StudyKeys))

\* lines 45-50: the checks of the pooled loop, for the keys in the order the
\* set of keys is iterated in
PooledChecks(ep, gp, order) ==
    Tab(LAMBDA j : [part |-> "pooled", i |-> 0, key |-> order[j],
                    counted |-> /\ order[j] \in DOMAIN ep /\ order[j] \in DOMAIN gp
                                /\ IsNum(ep[order[j]]) /\ IsNum(gp[order[j]]),
                    actual |-> Get(ep, order[j], None),
                    expected |-> Get(gp, order[j], None)],
        Len(order))

\* lines 57-62: the checks of the heterogeneity loop
HetChecks(eh, gh) ==
    Tab(LAMBDA j : [part |-> "heterogeneity", i |-> 0, key |-> HetKeys[j],
                    counted |-> HetKeys[j] \in DOMAIN eh /\ HetKeys[j] \in DOMAIN gh,
                    actual |-> Get(eh, HetKeys[j], None),
                    expected |-> Get(gh, HetKeys[j], None)],
        Len(HetKeys))

IsCounted(c) == c.counted
IsFailure(c) == ~compare_values(c.actual, c.expected)
\* a FAIL line formats both values with :.10f, which raises TypeError for None
FormatRaises(c) == c.actual = None \/ c.expected = None

\* the orders in which a set of keys can be iterated
Orders(S) ==
    {f \in [1..Cardinality(S) -> S] : \A i, j \in 1..Cardinality(S) : i # j => f[i] # f[j]}

\* compare_scenario, lines 27-68: total counts the checks, passed those whose
\* compare_values flag is true, results holds one line per other check
compare_scenario(engine_s, gold_s, order) ==
    LET checks == SelectSeq(
                      StudyChecks(Get(engine_s, "studies", <<>>), Get(gold_s, "studies", <<>>))
                      \o PooledChecks(Get(engine_s, "pooled", <<>>),
                                      Get(gold_s, "pooled", <<>>), order)
                      \o HetChecks(Get(engine_s, "heterogeneity", <<>>),
                                   Get(gold_s, "heterogeneity", <<>>)),
                      IsCounted)
        results == SelectSeq(checks, IsFailure)
    IN  IF \E j \in 1..Len(results) : FormatRaises(results[j])
        THEN [status |-> "TypeError"]
        ELSE [status |-> "ok", total |-> Len(checks),
              passed |-> Len(checks) - Len(results),
              results |-> [j \in 1..Len(results) |->
                              <<results[j].part, results[j].i, results[j].key>>]]

\* the scenario names in sorted order
ScenarioNames == <<"scenario_1", "scenario_2">>
\* line 85: sorted(set(list(engine.keys()) + list(gold.keys())))
InEither(name) == name \in DOMAIN engine \/ name \in DOMAIN gold
scenario_names == SelectSeq(ScenarioNames, InEither)

Study(y, s) == [yi |-> Num(y), sei |-> Num(s)]
Doc(sts, pooled, het) == [studies |-> sts, pooled |-> pooled, heterogeneity |-> het]

\* gold-standard scenarios: complete and numeric
GoldDocs ==
    {Doc(<<Study(0, 5)>>, [summary |-> Num(0), se |-> Num(5)],
         [Q |-> Num(0), df |-> Num(0)]),
     Doc(<<Study(0, 5), Study(20, 5)>>, [summary |-> Num(20), se |-> Num(5)],
         [Q |-> Num(20), df |-> Num(20000000)])}

\* engine scenarios: equal to a gold one, within or outside the tolerance,
\* with fewer studies, with keys missing, with null values
EngineDocs ==
    GoldDocs \cup
    {Doc(<<Study(5, 5)>>, [summary |-> Num(5), se |-> Num(5)],
         [Q |-> Num(5), df |-> Num(0)]),
     Doc(<<Study(20, 20)>>, [summary |-> Num(0), se |-> Num(20)],
         [Q |-> Num(20), df |-> Num(20000015)]),
     Doc(<<>>, [summary |-> Num(0), se |-> Num(5)], [Q |-> Num(0), df |-> Num(0)]),
     [pooled |-> [summary |-> Num(0)]],
     Doc(<<[yi |-> Num(0)]>>, [summary |-> Num(0)], [df |-> Num(0)]),
     Doc(<<Study(0, 5)>>, [summary |-> None, se |-> Num(5)],
         [Q |-> Num(0), df |-> Num(0)]),
     Doc(<<Study(0, 5)>>, [summary |-> Num(0), se |-> Num(5)],
         [Q |-> None, df |-> Num(0)]),
     Doc(<<[yi |-> None, sei |-> Num(5)]>>, [summary |-> Num(0), se |-> Num(5)],
         [Q |-> Num(0), df |-> Num(0)])}

Documents(docs) ==
    UNION {[S -> docs] : S \in SUBSET {ScenarioNames[i] : i \in 1..Len(ScenarioNames)}}

\* main, lines 76-83
InitCompare ==
    /\ engine \in Documents(EngineDocs)
    /\ gold \in Documents(GoldDocs)
    /\ scenario_idx = 0
    /\ total_all = 0
    /\ passed_all = 0
    /\ all_failures = <<>>
    /\ exit_code = -1
    /\ ESIdle
    /\ PoolIdle
    /\ PureIdle
    /\ EggerIdle

\* lines 92-99: a scenario that one of the documents lacks is skipped
SkipScenario ==
    /\ exit_code = -1
    /\ scenario_idx < Len(scenario_names)
    /\ \/ scenario_names[scenario_idx + 1] \notin DOMAIN engine
       \/ scenario_names[scenario_idx + 1] \notin DOMAIN gold
    /\ scenario_idx' = scenario_idx + 1
    /\ UNCHANGED <<engine, gold, total_all, passed_all, all_failures, exit_code,
                   esVars, poolVars, pureVars, eggerVars>>

\* lines 101-113: one scenario compared; an uncaught TypeError ends the
\* process with exit status 1
CompareScenario ==
    /\ exit_code = -1
    /\ scenario_idx < Len(scenario_names)
    /\ \E scenario \in {scenario_names[scenario_idx + 1]} :
        /\ scenario \in DOMAIN engine
        /\ scenario \in DOMAIN gold
        /\ \E order \in Orders(DOMAIN Get(engine[scenario], "pooled", <<>>)
                               \cup DOMAIN Get(gold[scenario], "pooled", <<>>)) :
             \E r \in {compare_scenario(engine[scenario], gold[scenario], order)} :
                IF r.status = "TypeError"
                THEN /\ exit_code' = 1
                     /\ UNCHANGED <<scenario_idx, total_all, passed_all, all_failures>>
                ELSE /\ total_all' = total_all + r.total
                     /\ passed_all' = passed_all + r.passed
                     /\ all_failures' = all_failures \o
                            [j \in 1..Len(r.results) |-> <<scenario, r.results[j]>>]
                     /\ scenario_idx' = scenario_idx + 1
                     /\ exit_code' = exit_code
    /\ UNCHANGED <<engine, gold, esVars, poolVars, pureVars, eggerVars>>

\* line 127
Exit ==
    /\ exit_code = -1
    /\ scenario_idx = Len(scenario_names)
    /\ exit_code' = IF passed_all = total_all THEN 0 ELSE 1
    /\ UNCHANGED <<engine, gold, scenario_idx, total_all, passed_all, all_failures,
                   esVars, poolVars, pureVars, eggerVars>>

NextCompare ==
    \/ SkipScenario
    \/ CompareScenario
    \/ Exit

SpecCompare == InitCompare /\ [][NextCompare]_vars

(***************************************************************************)
(* Claims about the effect-size functions (checked under SpecES).          *)
(***************************************************************************)
\* the trigger of the correction, on the integer counts of the study
HasZeroCell(s) ==
    s.events1 = 0 \/ s.events2 = 0 \/ s.events1 = s.total1 \/ s.events2 = s.total2

\* the four cells, doubled when the correction applies so that they stay integers
Cells2(s) ==
    IF HasZeroCell(s)
    THEN <<2 * s.events1 + 1, 2 * (s.total1 - s.events1) + 1,
           2 * s.events2 + 1, 2 * (s.total2 - s.events2) + 1>>
    ELSE <<s.events1, s.total1 - s.events1, s.events2, s.total2 - s.events2>>

\* C1: correct_zero_cells adds 0.5 to both event counts and 1 to both totals
\* exactly when an event count is 0 or equals its total, and returns its
\* inputs otherwise; log_odds_ratio takes a, b, c, d and log_risk_ratio takes
\* p1, p2 from the corrected counts.
C1_ZeroCellCorrection ==
    study.kind = "binary" =>
        LET e1 == study.events1
            t1 == study.total1
            e2 == study.events2
            t2 == study.total2
            q == Cells2(study)
        IN  /\ (applied = 1 /\ HasZeroCell(study)) =>
                   corrected = << <<2 * e1 + 1, 2>>, <<t1 + 1, 1>>,
                                  <<2 * e2 + 1, 2>>, <<t2 + 1, 1>> >>
            /\ (applied = 1 /\ ~HasZeroCell(study)) =>
                   corrected = << <<e1, 1>>, <<t1, 1>>, <<e2, 1>>, <<t2, 1>> >>
            /\ es.fn = "log_odds_ratio" =>
                   /\ es.out.status = "ok"
                   /\ es.out.yi = [kind |-> "ln", arg |-> Norm(q[1] * q[4], q[2] * q[3])]
            /\ es.fn = "log_risk_ratio" =>
                   /\ es.out.status = "ok"
                   /\ es.out.yi =
                        [kind |-> "ln",
                         arg |-> IF HasZeroCell(study)
                                 THEN Norm((2 * e1 + 1) * (t2 + 1), (t1 + 1) * (2 * e2 + 1))
                                 ELSE Norm(e1 * t2, t1 * e2)]

\* one arm alone triggers the correction, both arms are corrected, and the
\* odds ratio is the one of the corrected cells
C1_Witness ==
    /\ study = zero_cell_studies[1]
    /\ applied = 1
    /\ corrected = << <<1, 2>>, <<21, 1>>, <<11, 2>>, <<23, 1>> >>
    /\ es.fn = "log_odds_ratio"
    /\ es.out.yi = [kind |-> "ln", arg |-> <<35, 451>>]

\* C2: applying correct_zero_cells to its own output returns that output
\* unchanged (the correction is applied exactly once).
C2_NoDoubleCorrection == [][applied >= 1 => corrected' = corrected]_vars

\* (0, 20, 5, 22) corrected twice: a = 0.5 and b = 20.5 still
C2_Witness ==
    /\ study = zero_cell_studies[1]
    /\ applied = 2
    /\ corrected[1] = <<1, 2>>
    /\ RSub(corrected[2], corrected[1]) = <<41, 2>>

\* C8: mean_difference and hedges_g raise whenever a denominator is zero or
\* df = n1 + n2 - 2 <= 0, and never return a NaN or an infinite (yi, sei).
C8_DomainErrorRaised ==
    /\ es.fn = "hedges_g" =>
           LET df == study.n1 + study.n2 - 2
               pooled == (study.n1 - 1) * study.sd1 * study.sd1
                         + (study.n2 - 1) * study.sd2 * study.sd2
           IN  /\ (df <= 0 \/ pooled = 0 \/ study.n1 * study.n2 = 0) =>
                      es.out.status = "ZeroDivisionError"
               /\ es.out.status = "ok" =>
                      SurdIsFinite(es.out.yi) /\ SurdIsFinite(es.out.sei)
    /\ es.fn = "mean_difference" =>
           /\ (study.n1 = 0 \/ study.n2 = 0) => es.out.status = "ZeroDivisionError"
           /\ es.out.status = "ok" =>
                  IsFinite(es.out.yi) /\ SurdIsFinite(es.out.sei)

(***************************************************************************)
(* Claims about pooling and heterogeneity (checked under Spec).            *)
(***************************************************************************)
K == Len(studies)

\* the sampling variances of the study set
Variances == vi_arr(studies)

\* the heterogeneity results the two analyses have returned so far
Returned ==
    (IF ma.status = "ok" THEN {ma.heterogeneity} ELSE {})
    \cup (IF hr.status = "ok" THEN {hr.heterogeneity} ELSE {})

\* C3: the heterogeneity result has tau2 >= 0, and tau2 = 0 exactly
\* whenever Q <= df.
C3_Tau2Truncated ==
    \A h \in Returned :
        /\ RGe(h.tau2, Zero)
        /\ RLe(h.Q, R(h.df)) => h.tau2 = Zero

\* both analyses returned, 0 < Q < df, and the negative estimate became 0
C3_Witness ==
    /\ ma.status = "ok" /\ hr.status = "ok"
    /\ K >= 2
    /\ \A h \in Returned : RLt(Zero, h.Q) /\ RLt(h.Q, R(h.df)) /\ h.tau2 = Zero

\* C4: the fixed-model and the random-model weight percentages each sum
\* to 100, for every study set with k >= 1.
C4_WeightsSumTo100 ==
    /\ ma.status = "ok" =>
           Sum(ma.weights_fe) = R(100) /\ Sum(ma.weights_re) = R(100)
    /\ hr.status = "ok" =>
           Sum(Tab(LAMBDA i : hr.studies[i].weight, K)) = R(100)

\* the same sums for the study sets whose variances are all positive
WeightsSumTo100IfPositive ==
    (\A i \in 1..K : RGt(Variances[i], Zero)) => C4_WeightsSumTo100

\* C5: 0 <= I2 <= 100; I2 = 0 when Q <= 0 or Q <= df, and I2 is
\* (Q - df) / Q * 100 otherwise.
C5_I2Range ==
    \A h \in Returned :
        /\ RGe(h.I2, Zero)
        /\ RLe(h.I2, R(100))
        /\ (RLe(h.Q, Zero) \/ RLe(h.Q, R(h.df))) => h.I2 = Zero
        /\ (RGt(h.Q, Zero) /\ RGt(h.Q, R(h.df))) =>
               h.I2 = Norm((h.Q[1] - h.df * h.Q[2]) * 100, h.Q[1])

\* both analyses returned an I2 strictly between 0 and 100
C5_Witness ==
    /\ ma.status = "ok" /\ hr.status = "ok"
    /\ \A h \in Returned : RLt(Zero, h.I2) /\ RLt(h.I2, R(100))

\* C6: df = k - 1, and for k = 1 the heterogeneity result is the tuple
\* Q=0, df=0, pValue=1, I2=0, tau2=0, tau=0, H2=1 whatever the study is.
C6_DegenerateSingleStudy ==
    \A h \in Returned :
        /\ h.df = K - 1
        /\ K = 1 =>
               h = [Q |-> <<0, 1>>, df |-> 0,
                    pValue |-> [dist |-> "const", x |-> <<1, 1>>, df |-> 0],
                    I2 |-> <<0, 1>>, tau2 |-> <<0, 1>>,
                    tau |-> [c |-> <<1, 1>>, r |-> <<0, 1>>], H2 |-> <<1, 1>>]

\* a single study with ln(hr) = 1 and variance 4, analysed by both functions
C6_Witness ==
    /\ K = 1
    /\ ma.status = "ok" /\ hr.status = "ok"
    /\ yi_arr(studies)[1] = <<1, 1>> /\ Variances[1] = <<4, 1>>
    /\ ma.heterogeneity.H2 = One /\ hr.heterogeneity.H2 = One

\* C7: a study set with a study whose variance is not positive is rejected
\* with an error: no analysis returns a result for it.
C7_ZeroVarianceRejected ==
    (\E i \in 1..K : ~RGt(Variances[i], Zero)) =>
        ma.status # "ok" /\ hr.status # "ok"

\* the study set with the studies at positions i and j exchanged
Swap(sts, i, j) ==
    [n \in 1..Len(sts) |-> IF n = i THEN sts[j] ELSE IF n = j THEN sts[i] ELSE sts[n]]

\* what an analysis returns apart from the per-study weights
MA_Summary(r) ==
    IF r.status = "ok" THEN [r EXCEPT !.weights_fe = <<>>, !.weights_re = <<>>] ELSE r
HR_Summary(r) ==
    IF r.status = "ok"
    THEN [pooled |-> r.pooled, fixed |-> r.fixed, heterogeneity |-> r.heterogeneity]
    ELSE r

\* C9: the heterogeneity result and the pooled fixed and random summaries
\* and standard errors do not depend on the order of the studies.
C9_OrderIndependent ==
    \A i, j \in 1..K :
        i < j =>
            /\ ma # NoResult =>
                   MA_Summary(meta_analysis(yi_arr(Swap(studies, i, j)),
                                            vi_arr(Swap(studies, i, j)), model))
                       = MA_Summary(ma)
            /\ hr # NoResult =>
                   HR_Summary(meta_analysis_hr(Swap(studies, i, j), model))
                       = HR_Summary(hr)

\* three pairwise different studies, heterogeneous, analysed by both functions
C9_Witness ==
    /\ K = 3
    /\ studies[1] # studies[2] /\ studies[2] # studies[3] /\ studies[1] # studies[3]
    /\ ma.status = "ok" /\ hr.status = "ok"
    /\ RGt(ma.heterogeneity.tau2, Zero)

\* C10 as stated: with k >= 2 and tau2 > 0 the fixed and the random weight
\* percentages are different vectors.
C10_WeightsDifferWhenTau2Positive ==
    (ma.status = "ok" /\ K >= 2 /\ RGt(ma.heterogeneity.tau2, Zero)) =>
        ma.weights_fe # ma.weights_re

\* C10 as amended: with k >= 2 and tau2 > 0 the two weight vectors differ
\* exactly when the studies do not all have the same variance; with equal
\* variances every weight is 100 / k under both models.
C10_WeightsDifferUnlessEqualVariances ==
    (ma.status = "ok" /\ K >= 2 /\ RGt(ma.heterogeneity.tau2, Zero)) =>
        /\ (ma.weights_fe # ma.weights_re)
               <=> (\E i, j \in 1..K : Variances[i] # Variances[j])
        /\ (\A i, j \in 1..K : Variances[i] = Variances[j]) =>
               \A i \in 1..K : ma.weights_fe[i] = Norm(100, K)
                               /\ ma.weights_re[i] = Norm(100, K)

\* tau2 > 0 with unequal variances: the weights differ
C10_Witness ==
    /\ ma.status = "ok" /\ K >= 2 /\ RGt(ma.heterogeneity.tau2, Zero)
    /\ Variances[1] # Variances[2]
    /\ ma.weights_fe # ma.weights_re

(***************************************************************************)
(* Claims about the pooled estimates (checked under Spec).                 *)
(***************************************************************************)
\* the effect sizes of the study set
Effects == yi_arr(studies)

\* the formulas of the two models, written out: weights 1 / (vi + t), the
\* weighted mean, its standard error, Q around the fixed mean, C and the
\* DerSimonian-Laird tau2
RefW(vi, t) == Tab(LAMBDA i : RInv(RAdd(vi[i], t)), Len(vi))
RefMean(w, yi) == RDiv(Sum(Tab(LAMBDA i : RMul(w[i], yi[i]), Len(w))), Sum(w))
RefSe(w) == Sqrt(RInv(Sum(w)))
RefQ(w, yi) ==
    Bind(RefMean(w, yi), LAMBDA mu :
        Sum(Tab(LAMBDA i : RMul(w[i], RMul(RSub(yi[i], mu), RSub(yi[i], mu))), Len(w))))
RefC(w) == RSub(Sum(w), RDiv(Sum(Tab(LAMBDA i : RMul(w[i], w[i]), Len(w))), Sum(w)))
RefTau2(yi, vi) ==
    Bind(RefW(vi, Zero), LAMBDA w :
    Bind(RDiv(RSub(RefQ(w, yi), R(Len(yi) - 1)), RefC(w)), LAMBDA t :
        IF RGt(t, Zero) THEN t ELSE Zero))
\* the weights of the model named by the selector
RefWeights(yi, vi, mdl) ==
    RefW(vi, IF mdl = "fixed" THEN Zero ELSE RefTau2(yi, vi))
RefPct(w) == Tab(LAMBDA i : RMul(RDiv(w[i], Sum(w)), R(100)), Len(w))

\* the estimates (summary, se, z) a result holds
MA_Estimates(r) ==
    IF "z" \in DOMAIN r THEN {<<r.summary, r.se, r.z>>} ELSE {}
HR_Estimates(r) ==
    {<<r.pooled.summary, r.pooled.se, r.pooled.z>>,
     <<r.fixed.summary, r.fixed.se, r.fixed.z>>}
\* the estimate (summary, se, z = summary / se) of a model
RefEstimate(yi, vi, mdl) ==
    Bind(IF Len(yi) = 1 THEN RefW(vi, Zero) ELSE RefWeights(yi, vi, mdl), LAMBDA w :
        <<RefMean(w, yi), RefSe(w), DivBySurd(RefMean(w, yi), RefSe(w))>>)

\* C11: one call returns the fixed-effect and the random-effects estimate,
\* each with summary, se and z, for every k >= 1 and either selector.
C11_BothEstimatesReturned ==
    /\ ma.status = "ok" =>
           /\ RefEstimate(Effects, Variances, "fixed") \in MA_Estimates(ma)
           /\ RefEstimate(Effects, Variances, "random") \in MA_Estimates(ma)
    /\ hr.status = "ok" =>
           /\ RefEstimate(Effects, Variances, "fixed") \in HR_Estimates(hr)
           /\ RefEstimate(Effects, Variances, "random") \in HR_Estimates(hr)

\* with the selector 'random' meta_analysis_hr does return both estimates
BothEstimatesIfRandomHR ==
    (hr.status = "ok" /\ model = "random") =>
        /\ RefEstimate(Effects, Variances, "fixed") \in HR_Estimates(hr)
        /\ RefEstimate(Effects, Variances, "random") \in HR_Estimates(hr)

\* C12: for k >= 2 the returned summary and se are the weighted mean and
\* sqrt(1 / sum(w)) with w = 1 / vi for 'fixed' and w = 1 / (vi + tau2) for
\* 'random', tau2 = max(0, (Q - df) / C); the heterogeneity result does not
\* depend on the selector.
C12_SelectedModelFormulas ==
    K >= 2 =>
        /\ ma.status = "ok" =>
               /\ ma.summary = RefMean(RefWeights(Effects, Variances, model), Effects)
               /\ ma.se = RefSe(RefWeights(Effects, Variances, model))
               /\ ma.heterogeneity.tau2 = RefTau2(Effects, Variances)
               /\ ma.heterogeneity.Q = RefQ(RefW(Variances, Zero), Effects)
               /\ \A m \in {"fixed", "random"} :
                      meta_analysis(Effects, Variances, m).heterogeneity = ma.heterogeneity
        /\ hr.status = "ok" =>
               /\ hr.pooled.summary = RefMean(RefWeights(Effects, Variances, model), Effects)
               /\ hr.pooled.se = RefSe(RefWeights(Effects, Variances, model))
               /\ hr.heterogeneity.tau2 = RefTau2(Effects, Variances)
               /\ hr.heterogeneity.Q = RefQ(RefW(Variances, Zero), Effects)
               /\ \A m \in {"fixed", "random"} :
                      meta_analysis_hr(studies, m).heterogeneity = hr.heterogeneity

\* the selector 'fixed' on a set with tau2 > 0, where the two models differ
C12_Witness ==
    /\ K >= 2 /\ model = "fixed"
    /\ ma.status = "ok" /\ hr.status = "ok"
    /\ RGt(ma.heterogeneity.tau2, Zero)
    /\ ma.summary # RefMean(RefWeights(Effects, Variances, "random"), Effects)
    /\ ma.se # RefSe(RefWeights(Effects, Variances, "random"))

\* C18: the weight meta_analysis_hr attaches to a study is its weight under
\* the model whose pooled estimate is returned.
C18_WeightsOfSelectedModel ==
    hr.status = "ok" =>
        Tab(LAMBDA i : hr.studies[i].weight, K)
            = RefPct(IF K = 1 THEN RefW(Variances, Zero)
                     ELSE RefWeights(Effects, Variances, model))

\* the attached weights are the random-effects weights under either selector
AttachedWeightsAreRandom ==
    hr.status = "ok" =>
        Tab(LAMBDA i : hr.studies[i].weight, K)
            = RefPct(IF K = 1 THEN RefW(Variances, Zero)
                     ELSE RefWeights(Effects, Variances, "random"))

(***************************************************************************)
(* Claims about invalid records and about the agreement of the scripts.    *)
(***************************************************************************)
\* a record the analysis must not accept: hr or a CI bound <= 0, or sei = 0
InvalidRecord(s) ==
    \/ s.hr.sgn <= 0 \/ s.ciLower.sgn <= 0 \/ s.ciUpper.sgn <= 0
    \/ s.ciLower = s.ciUpper

\* C16: if one study record is invalid the analysis ends in an error and
\* returns no result (checked under SpecInvalid).
C16_InvalidStudyFailsAnalysis ==
    (\E i \in 1..K : InvalidRecord(studies[i])) =>
        ma.status # "ok" /\ hr.status # "ok"

\* C17: on the same (yi, vi) and selector, meta_analysis and meta_analysis_hr
\* return equal summary, se, heterogeneity and random weight percentages,
\* and for k >= 2 with 'random' these equal the straight-line computation.
C17_ScriptsAgree ==
    (ma # NoResult /\ hr # NoResult) =>
        /\ ma.status = hr.status
        /\ ma.status = "ok" =>
               /\ ma.summary = hr.pooled.summary
               /\ ma.se = hr.pooled.se
               /\ ma.heterogeneity = hr.heterogeneity
               /\ ma.weights_re = Tab(LAMBDA i : hr.studies[i].weight, K)
               /\ (K >= 2 /\ model = "random") =>
                      /\ ma.summary = gold_standard(Effects, Variances).pooled.summary
                      /\ ma.se = gold_standard(Effects, Variances).pooled.se
                      /\ ma.heterogeneity = gold_standard(Effects, Variances).heterogeneity
                      /\ ma.weights_re = gold_standard(Effects, Variances).weights_re_pct

\* the same agreement for the study sets whose variances are all positive
ScriptsAgreeIfPositive ==
    (\A i \in 1..K : RGt(Variances[i], Zero)) => C17_ScriptsAgree

PointX(i) == Norm(1, sei_arr(studies)[i][1])
PointY(i) == RMul(yi_arr(studies)[i], PointX(i))

\* C13: with k < 3 Egger's regression returns a defined result: no error,
\* and no division by zero in mse = sse / (k - 2) or slope = Sxy / Sxx.
C13_DefinedBelowThree ==
    (K < 3 /\ egger.status # "none") =>
        /\ egger.status = "ok"
        /\ egger.df # 0 /\ egger.Sxx # Zero
        /\ IsFinite(egger.slope) /\ IsFinite(egger.mse)
        /\ IsFinite(egger.intercept) /\ SurdIsFinite(egger.se)

\* with k < 3 the standard error of the intercept is always NaN
UndefinedBelowThree ==
    (K < 3 /\ egger.status = "ok") => IsNaN(egger.se.c) /\ IsNaN(egger.mse)

\* the points lie on one line and no two have the same x
Collinear ==
    /\ \A i, j \in 1..K : i # j => PointX(i) # PointX(j)
    /\ \A i \in 1..K :
           RMul(RSub(PointY(i), PointY(1)), RSub(PointX(2), PointX(1)))
               = RMul(RSub(PointY(2), PointY(1)), RSub(PointX(i), PointX(1)))

\* C14: for k >= 3 collinear points with distinct x, the residual sum of
\* squares and se(intercept) are 0, intercept = ybar - slope * xbar (the
\* line through the points) and df = k - 2.
C14_CollinearPoints ==
    (K >= 3 /\ egger.status = "ok" /\ Collinear) =>
        LET b == RDiv(RSub(PointY(2), PointY(1)), RSub(PointX(2), PointX(1)))
            xbar == RDiv(Sum(Tab(PointX, K)), R(K))
            ybar == RDiv(Sum(Tab(PointY, K)), R(K))
        IN  /\ egger.sse = Zero
            /\ SurdIsZero(egger.se)
            /\ egger.slope = b
            /\ egger.intercept = RSub(PointY(1), RMul(b, PointX(1)))
            /\ egger.intercept = RSub(ybar, RMul(egger.slope, xbar))
            /\ egger.df = K - 2

\* three collinear points with a non-zero slope and a non-zero intercept
C14_Witness ==
    /\ K = 3 /\ egger.status = "ok" /\ Collinear
    /\ egger.slope # Zero /\ egger.intercept # Zero
    /\ egger.sse = Zero

(***************************************************************************)
(* Claims about compare-comprehensive.py                                   *)
(***************************************************************************)
KeysOf(keys) == {keys[i] : i \in 1..Len(keys)}
CommonScenarios == DOMAIN engine \cap DOMAIN gold
AllCompared == scenario_idx = Len(scenario_names)

\* the metrics of one gold-standard scenario
GoldMetrics(gold_s) ==
    LET gs_list == Get(gold_s, "studies", <<>>)
        gp == Get(gold_s, "pooled", <<>>)
        gh == Get(gold_s, "heterogeneity", <<>>)
    IN  {<<"study", i - 1, key>> : <<i, key>> \in
            {c \in (1..Len(gs_list)) \X KeysOf(StudyKeys) : c[2] \in DOMAIN gs_list[c[1]]}}
        \cup {<<"pooled", 0, key>> : key \in {k \in DOMAIN gp : IsNum(gp[k])}}
        \cup {<<"heterogeneity", 0, key>> : key \in KeysOf(HetKeys) \cap DOMAIN gh}

GoldTotal ==
    Cardinality(UNION {{<<name, m>> : m \in GoldMetrics(gold[name])} : name \in CommonScenarios})

\* the engine scenario has every study and every key of the gold scenario
Covers(engine_s, gold_s) ==
    LET es_list == Get(engine_s, "studies", <<>>)
        gs_list == Get(gold_s, "studies", <<>>)
        ep == Get(engine_s, "pooled", <<>>)
        gp == Get(gold_s, "pooled", <<>>)
        eh == Get(engine_s, "heterogeneity", <<>>)
        gh == Get(gold_s, "heterogeneity", <<>>)
    IN  /\ Len(gs_list) <= Len(es_list)
        /\ \A i \in 1..Len(gs_list) :
              KeysOf(StudyKeys) \cap DOMAIN gs_list[i] \subseteq DOMAIN es_list[i]
        /\ \A key \in DOMAIN gp : IsNum(gp[key]) => key \in DOMAIN ep /\ IsNum(ep[key])
        /\ KeysOf(HetKeys) \cap DOMAIN gh \subseteq DOMAIN eh

\* C19: when every scenario has been compared, the number of checks counted
\* is the number of gold-standard metrics of the scenarios present in both
\* documents: none is left uncounted.
C19_EveryGoldMetricCounted == AllCompared => total_all = GoldTotal

\* What the code does: no more checks than gold-standard metrics are
\* counted, and all of them when the engine scenarios have every study and
\* every key of the gold-standard ones.
GoldMetricsCountedIfCovered ==
    AllCompared =>
        /\ total_all <= GoldTotal
        /\ (\A name \in CommonScenarios : Covers(engine[name], gold[name]))
               => total_all = GoldTotal

\* a value of a key that both scenarios hold is null in the engine scenario
HasNull(engine_s, gold_s) ==
    LET es_list == Get(engine_s, "studies", <<>>)
        gs_list == Get(gold_s, "studies", <<>>)
        eh == Get(engine_s, "heterogeneity", <<>>)
        gh == Get(gold_s, "heterogeneity", <<>>)
    IN  \/ \E i \in 1..Len(es_list) :
              /\ i <= Len(gs_list)
              /\ \E key \in DOMAIN es_list[i] \cap DOMAIN gs_list[i] : es_list[i][key] = None
        \/ \E key \in DOMAIN eh \cap DOMAIN gh : eh[key] = None

CountersConsistent ==
    /\ passed_all <= total_all
    /\ Len(all_failures) = total_all - passed_all
    /\ CommonScenarios = {} => total_all = 0 /\ passed_all = 0

\* C20: passed_all <= total_all, the number of recorded failures is
\* total_all - passed_all, scenarios missing from a document add nothing, and
\* the exit status is 0 exactly when passed_all = total_all and 1 otherwise.
C20_CountersAndExitStatus ==
    /\ CountersConsistent
    /\ exit_code # -1 => (exit_code = 0 <=> passed_all = total_all)
    /\ exit_code # -1 => exit_code \in {0, 1}

\* What the code does: the counters are consistent throughout, and the exit
\* status follows them unless a null value under a compared key stopped the
\* comparison.
ExitStatusUnlessNull ==
    /\ CountersConsistent
    /\ exit_code # -1 =>
          \/ exit_code = (IF passed_all = total_all THEN 0 ELSE 1)
          \/ /\ exit_code = 1
             /\ ~AllCompared
             /\ HasNull(engine[scenario_names[scenario_idx + 1]],
                        gold[scenario_names[scenario_idx + 1]])

(***************************************************************************)
(* Claims about the cells of a 2x2 table                                   *)
(***************************************************************************)
Positive(x) == IsFinite(x) /\ RGt(x, Zero)

\* C21: for an integer table with 0 <= events <= total in both arms, the
\* cells a, b, c, d of the corrected counts are strictly positive;
\* log_odds_ratio and log_risk_ratio then raise nothing, take the logarithm
\* of a positive value and return a finite positive standard error.
C21_CorrectedCellsPositive ==
    (study.kind = "binary" /\ ValidBinary(study)) =>
        /\ applied >= 1 =>
               /\ Positive(corrected[1])
               /\ Positive(RSub(corrected[2], corrected[1]))
               /\ Positive(corrected[3])
               /\ Positive(RSub(corrected[4], corrected[3]))
               /\ Positive(corrected[2])
               /\ Positive(corrected[4])
        /\ es.fn \in {"log_odds_ratio", "log_risk_ratio"} =>
               /\ es.out.status = "ok"
               /\ es.out.yi.kind = "ln"
               /\ Positive(es.out.yi.arg)
               /\ es.fn = "log_odds_ratio" =>
                      SurdIsFinite(es.out.sei) /\ ~SurdIsZero(es.out.sei)
               /\ es.fn = "log_risk_ratio" => SurdIsFinite(es.out.sei)

\* a table with both totals 0, corrected to (0.5, 1, 0.5, 1)
C21_Witness ==
    /\ study = Binary(0, 0, 0, 0)
    /\ applied = 1
    /\ corrected = << <<1, 2>>, <<1, 1>>, <<1, 2>>, <<1, 1>> >>
    /\ es.fn = "log_odds_ratio"
    /\ es.out.status = "ok"
    /\ es.out.yi = [kind |-> "ln", arg |-> One]

(***************************************************************************)
(* Claims about study sets whose variances are all positive (checked       *)
(* under Spec).                                                            *)
(***************************************************************************)
AllPositive == Bind(Variances, LAMBDA vi : \A i \in 1..Len(vi) : Positive(vi[i]))

\* the results the three scripts have for the study set: meta_analysis and
\* meta_analysis_hr once they have returned, and the gold-standard script
Heterogeneities ==
    Returned \cup {gold_standard(Effects, Variances).heterogeneity}

C23_IndicatorsAgree ==
    (K >= 2 /\ AllPositive) =>
        \A h \in Heterogeneities :
            /\ RGt(h.tau2, Zero) <=> RGt(h.Q, R(h.df))
            /\ RGt(h.I2, Zero) <=> RGt(h.Q, R(h.df))
            /\ RGt(h.H2, One) <=> RGt(h.Q, R(h.df))
            /\ RLe(h.Q, R(h.df)) => h.tau2 = Zero /\ h.I2 = Zero

\* (yi, vi) = (-1, 1), (1, 1): Q = 2 > df = 1, tau2 = 1, I2 = 50, H2 = 2 in
\* both analyses
C23_Witness ==
    /\ K = 2 /\ AllPositive
    /\ ma.status = "ok" /\ hr.status = "ok"
    /\ \A h \in Returned :
          h.Q = R(2) /\ h.df = 1 /\ h.tau2 = One /\ h.I2 = R(50) /\ h.H2 = R(2)

\* the fixed-effect and the random-effects estimate as the three scripts
\* compute them, with their weights and the tau2 they were computed with
BothModels ==
    Bind([yi |-> Effects, vi |-> Variances], LAMBDA a :
        {Bind(MA_Fixed(a.yi, a.vi), LAMBDA fe :
         Bind(MA_Het(a.yi, fe, Len(a.yi) - 1).het.tau2, LAMBDA tau2 :
             [fe |-> fe, tau2 |-> tau2, re |-> MA_Random(a.yi, a.vi, tau2)])),
         Bind(HR_Fixed(a.yi, a.vi), LAMBDA fe :
         Bind(HR_Het(a.yi, fe, Len(a.yi) - 1).het.tau2, LAMBDA tau2 :
             [fe |-> fe, tau2 |-> tau2, re |-> HR_Random(a.yi, a.vi, tau2)])),
         Bind(GS_Fixed(a.yi, a.vi), LAMBDA fe :
         Bind(GS_Het(a.yi, fe, Len(a.yi) - 1).tau2, LAMBDA tau2 :
             [fe |-> fe, tau2 |-> tau2, re |-> GS_Random(a.yi, a.vi, tau2)]))})

\* C24: for k >= 2 and all vi > 0 the random-effects standard error is at
\* least the fixed-effect one (sum of random weights <= sum of fixed
\* weights), with equality exactly when tau2 = 0, and then the random
\* summary, se and weight percentages are the fixed ones.
C24_RandomSeAtLeastFixedSe ==
    (K >= 2 /\ AllPositive) =>
        /\ \A m \in BothModels :
              /\ RLe(m.re.sum_w, m.fe.sum_w)
              /\ RGe(SurdSq(m.re.se), SurdSq(m.fe.se))
              /\ (m.re.se = m.fe.se) <=> (m.tau2 = Zero)
              /\ m.tau2 = Zero =>
                     /\ m.re.summary = m.fe.summary
                     /\ WeightPct(m.re.w, m.re.sum_w) = WeightPct(m.fe.w, m.fe.sum_w)
        /\ (ma.status = "ok" /\ model = "random") =>
              /\ RGe(SurdSq(ma.se), SurdSq(ma.fixed_se))
              /\ (ma.se = ma.fixed_se) <=> (ma.heterogeneity.tau2 = Zero)
              /\ ma.heterogeneity.tau2 = Zero =>
                     ma.summary = ma.fixed_summary /\ ma.weights_re = ma.weights_fe
        /\ (hr.status = "ok" /\ model = "random") =>
              /\ RGe(SurdSq(hr.pooled.se), SurdSq(hr.fixed.se))
              /\ (hr.pooled.se = hr.fixed.se) <=> (hr.heterogeneity.tau2 = Zero)
              /\ hr.heterogeneity.tau2 = Zero =>
                     /\ hr.pooled.summary = hr.fixed.summary
                     /\ Tab(LAMBDA i : hr.studies[i].weight, K)
                            = RefPct(RefW(Variances, Zero))

\* (yi, vi) = (-1, 4), (-1, 1), (1, 1) with the selector 'random': tau2 = 1/6
\* and se_re^2 = 175/342 > se_fe^2 = 4/9 in both analyses
C24_Witness ==
    /\ K = 3 /\ AllPositive /\ model = "random"
    /\ ma.status = "ok" /\ hr.status = "ok"
    /\ SurdSq(ma.se) = <<175, 342>> /\ SurdSq(ma.fixed_se) = <<4, 9>>
    /\ SurdSq(hr.pooled.se) = <<175, 342>> /\ SurdSq(hr.fixed.se) = <<4, 9>>

\* a percentage in (0, 100]
IsShare(x) == Positive(x) /\ RLe(x, R(100))
\* a value between the smallest and the largest yi of the study set
Between(x) ==
    Bind(Effects, LAMBDA yi :
        /\ IsFinite(x)
        /\ \E i \in 1..Len(yi) : RLe(yi[i], x)
        /\ \E i \in 1..Len(yi) : RLe(x, yi[i]))
\* every entry of a weight vector is a percentage in (0, 100]
AllShares(pct) == Bind(pct, LAMBDA p : \A i \in 1..Len(p) : IsShare(p[i]))

\* C25: for k >= 1 and all vi > 0 every weight percentage is > 0 and
\* <= 100 under both models (so the weight that meta_analysis_hr attaches
\* is > 0), and the fixed and the random summary lie between the smallest
\* and the largest yi.
C25_WeightsPositiveSummariesBetween ==
    AllPositive =>
        /\ ma.status = "ok" =>
              /\ AllShares(ma.weights_fe) /\ AllShares(ma.weights_re)
              /\ Between(ma.summary)
              /\ K >= 2 => Between(ma.fixed_summary)
        /\ hr.status = "ok" =>
              /\ \A i \in 1..K : IsShare(hr.studies[i].weight)
              /\ Between(hr.pooled.summary)
              /\ Between(hr.fixed.summary)
        /\ K >= 2 =>
              \A m \in BothModels :
                  /\ Between(m.fe.summary)
                  /\ Between(m.re.summary)
                  /\ AllShares(WeightPct(m.fe.w, m.fe.sum_w))
                  /\ AllShares(WeightPct(m.re.w, m.re.sum_w))

\* (yi, vi) = (-1, 1), (1, 4) with the selector 'fixed': weights 80 and 20,
\* summary -3/5, in both analyses
C25_Witness ==
    /\ K = 2 /\ AllPositive /\ model = "fixed"
    /\ Effects = <<R(-1), One>>
    /\ ma.status = "ok" /\ hr.status = "ok"
    /\ ma.weights_fe = <<R(80), R(20)>>
    /\ ma.summary = <<-3, 5>>
    /\ hr.studies[1].weight = R(80) /\ hr.studies[2].weight = R(20)
    /\ hr.fixed.summary = <<-3, 5>>

====
